---------------------------- MODULE Spec2Model ----------------------------
(***************************************************************************)
(* torchDF/model_onnx_export.py: the export / validate / quantize /        *)
(* session / test / benchmark / audio-inference script, as a state         *)
(* machine.  One action per pipeline stage of main(); every library call   *)
(* either succeeds with its effect or raises with no effect, the choice    *)
(* being an input of the action.  File paths are sequences of one-         *)
(* character strings so that str.replace is computed, not assumed.         *)
(***************************************************************************)
EXTENDS Integers, Sequences, FiniteSets, TLC

VARIABLES args, st, twin

vars == <<args, st, twin>>

(***************************************************************************)
(* Bounds of the model                                                     *)
(***************************************************************************)
\* longest inference path enumerated for infer_onnx_model
MaxLen == 5
\* largest abstract tensor value (frames, states, outputs), in units of atol
MaxVal == 2
\* largest exit code the conversion subprocess returns
MaxReturnCode == 2

(***************************************************************************)
(* Program constants                                                       *)
(***************************************************************************)
\* for i in range(30)
TEST_ITERS == 30
\* atol=1e-2, the unit of the abstract tensor values
ATOL == 1
\* torch.allclose's default rtol=1e-05, as 1/rtol
RTOL_INV == 100000
\* inter_op_num_threads = 1, intra_op_num_threads = 1
NUM_THREADS == 1

INPUT_NAMES == <<"input_frame">>

OUTPUT_NAMES == <<"enhanced_audio_frame", "out_states">>

\* input_features = [input_frame]
input_features == <<"rand_frame">>

\* --output-path default
DefaultOutputPath ==
    <<"d","e","n","o","i","s","e","r","_","m","o","d","e","l",".","o","n","n","x">>

OutputPaths == {DefaultOutputPath, <<"m",".","o","n","n","x">>}

\* --inference-path: None (the empty sequence, falsy like None) or a path
NoPath == <<>>

InferencePaths == {NoPath, <<"a",".","w","a","v">>, <<"a",".","f">>}

Alphabet == {".", "w", "a", "v"}

Vals == 0..MaxVal

ReturnCodes == 0..MaxReturnCode

(***************************************************************************)
(* Pure helpers                                                            *)
(***************************************************************************)
Abs(x) == IF x < 0 THEN -x ELSE x

Min(x, y) == IF x < y THEN x ELSE y

InSeq(x, s) == \E i \in 1..Len(s) : s[i] = x

IsPrefix(s, t) == Len(s) <= Len(t) /\ SubSeq(t, 1, Len(s)) = s

Write(files, p, c) ==
    [q \in (DOMAIN files) \cup {p} |-> IF q = p THEN c ELSE files[q]]

\* Python's str.replace(old, new): every non-overlapping occurrence, left to right
RECURSIVE replace(_, _, _)
replace(s, old, new) ==
    IF Len(s) < Len(old) THEN s
    ELSE IF SubSeq(s, 1, Len(old)) = old
         THEN new \o replace(SubSeq(s, Len(old) + 1, Len(s)), old, new)
         ELSE <<Head(s)>> \o replace(Tail(s), old, new)

\* inference_path.replace(".wav", "_onnx_infer.wav")
DotWav == <<".","w","a","v">>

OnnxInfer == <<"_","o","n","n","x","_","i","n","f","e","r">>

enhanced_path(inference_path) == replace(inference_path, DotWav, OnnxInfer \o DotWav)

\* index of the last "." of a file name, 0 when there is none
LastDot(p) ==
    IF \E i \in 1..Len(p) : p[i] = "."
    THEN CHOOSE i \in 1..Len(p) : p[i] = "." /\ \A j \in (i+1)..Len(p) : p[j] # "."
    ELSE 0

\* the .ort file onnxruntime.tools.convert_onnx_models_to_ort writes beside the model
ort_path(p) ==
    (IF LastDot(p) > 0 THEN SubSeq(p, 1, LastDot(p) - 1) ELSE p) \o <<".","o","r","t">>

\* {x: y... for x, y in zip(INPUT_NAMES, input_features)}: zip stops at the shorter
generate_onnx_features(features) ==
    LET n == Min(Len(INPUT_NAMES), Len(features))
    IN  [x \in {INPUT_NAMES[k] : k \in 1..n} |->
            features[CHOOSE k \in 1..n : INPUT_NAMES[k] = x]]

\* torch.allclose(x, y, atol=1e-2): |x - y| <= atol + rtol * |y|
allclose(x, y) == Abs(x - y) * RTOL_INV <= ATOL * RTOL_INV + Abs(y)

\* the streaming model's step: <<enhanced_audio_frame, out_states>>
torch_model(input_frame, states) ==
    <<(input_frame + states) % (MaxVal + 1), (states + input_frame + 1) % (MaxVal + 1)>>

(***************************************************************************)
(* Command line                                                            *)
(***************************************************************************)
ArgsSet ==
    [output_path : OutputPaths,
     simplify : BOOLEAN,
     test : BOOLEAN,
     performance : BOOLEAN,
     inference_path : InferencePaths,
     ort : BOOLEAN,
     always_apply_all_stages : BOOLEAN]

\* the same command line with only --always-apply-all-stages flipped
twin_args == [args EXCEPT !.always_apply_all_stages = ~@]

(***************************************************************************)
(* State of one run                                                        *)
(***************************************************************************)
AudioFile == <<"audio">>

InitState(a) ==
    [pc |-> "load",
     error |-> "none",
     stages |-> <<>>,
     completed |-> <<>>,
     printed |-> <<>>,
     files |-> IF a.inference_path # NoPath
               THEN Write(<<>>, a.inference_path, AudioFile)
               ELSE <<>>,
     passes |-> <<>>,
     torch_streaming_model |-> "native",
     torch_df |-> "unbound",
     sessions |-> <<>>,
     ort_session |-> 0,
     calls |-> <<>>,
     replaced_at |-> <<>>,
     simplify_calls |-> 0,
     returncode |-> <<>>,
     saved_path |-> NoPath,
     tester_entered |-> FALSE,
     test_i |-> 0,
     iterations |-> 0,
     states_torch |-> <<>>,
     states_onnx |-> <<>>,
     fed_torch |-> <<>>,
     fed_onnx |-> <<>>,
     out_torch |-> <<>>,
     out_onnx |-> <<>>,
     prev_out_torch |-> <<>>,
     prev_out_onnx |-> <<>>]

attempt(s, stage) == [s EXCEPT !.stages = Append(@, stage)]

complete(s, stage, next) == [s EXCEPT !.completed = Append(@, stage), !.pc = next]

raise(s, err) == [s EXCEPT !.pc = "failed", !.error = err]

print_line(s, msg) == [s EXCEPT !.printed = Append(@, msg)]

\* one invocation of a model: the native framework module, or the graph through
\* inference session number `session` of s.sessions
call(s, stage, callee, session, nargs) ==
    [s EXCEPT !.calls = Append(@, [stage |-> stage, callee |-> callee,
                                   session |-> session, nargs |-> nargs])]

\* calling whatever `model` refers to: the nn.Module, or the lambda of
\* infer_onnx_model, which runs ort_session
invoke(s, stage, model, nargs) ==
    IF model = "closure"
    THEN call(s, stage, "session", s.ort_session,
              Min(Len(INPUT_NAMES), nargs))
    ELSE call(s, stage, model, 0, nargs)

\* a library pass that loads the graph at src and saves the result at dst
graph_pass(s, src, dst, name) ==
    [s EXCEPT !.files = Write(@, dst, Append(s.files[src], name)),
              !.passes = Append(@, name)]

(***************************************************************************)
(* The stages of main(), in program order.  Each takes the run's state,    *)
(* the parsed arguments and the outcome of its library calls.              *)
(***************************************************************************)
\* streaming_pipeline = TorchDFMinimalPipeline(...); torch_df(*input_features)
load_pipeline(s, a, ok) ==
    LET s1 == [attempt(s, "load") EXCEPT !.torch_df = s.torch_streaming_model]
    IN  IF ~ok THEN raise(s1, "ModelError")
        ELSE complete(invoke(print_line(s1, "num_params"), "load", s1.torch_df,
                             Len(input_features)),
                      "load", "export")

\* torch.jit.script(torch_df); torch.onnx.export(..., args.output_path, ...)
export_model(s, a, ok) ==
    LET s1 == attempt(s, "export")
    IN  IF ~ok THEN raise(s1, "ExportError")
        ELSE LET s2 == invoke(s1, "export", s1.torch_df, Len(input_features))
                 s3 == [s2 EXCEPT !.files = Write(@, a.output_path, <<"export">>),
                                  !.passes = <<"export">>]
             IN  complete(print_line(s3, "exported"), "export", "validate")

check_model_retry(s, a, ok) ==
    LET s1 == attempt(s, "validate")
    IN  IF ~ok THEN s1
        ELSE complete(print_line(s1, "checked"), "validate", "quant_pre_process")

\* onnx.checker.check_model(onnx.load(args.output_path), full_check=True)
check_model(s, a, ok) ==
    LET s1 == attempt(s, "validate")
    IN  IF ~ok \/ a.output_path \notin DOMAIN s1.files
        THEN raise(s1, "ValidationError")
        ELSE complete(print_line(s1, "checked"), "validate", "quant_pre_process")

\* shape_inference.quant_pre_process(args.output_path, args.output_path, ...)
quant_pre_process(s, a, ok) ==
    LET s1 == attempt(s, "quant_pre_process")
    IN  IF ~ok THEN raise(s1, "PreprocessError")
        ELSE complete(print_line(graph_pass(s1, a.output_path, a.output_path,
                                            "quant_pre_process"),
                                 "preprocessed"),
                      "quant_pre_process", "quantize")

quantize_dynamic_elsewhere(s, a, ok) ==
    LET s1 == attempt(s, "quantize")
    IN  IF ~ok THEN raise(s1, "QuantizeError")
        ELSE complete(print_line(graph_pass(s1, a.output_path,
                                            a.output_path \o <<".","q">>,
                                            "quantize_dynamic"),
                                 "quantized"),
                      "quantize", "simplify")

\* quantize_dynamic(args.output_path, args.output_path, weight_type=QUInt8)
quantize_dynamic(s, a, ok) ==
    LET s1 == attempt(s, "quantize")
    IN  IF ~ok THEN raise(s1, "QuantizeError")
        ELSE complete(print_line(graph_pass(s1, a.output_path, a.output_path,
                                            "quantize_dynamic"),
                                 "quantized"),
                      "quantize", "simplify")

\* onnx_simplify(path, input_data, input_shapes): onnxsim.simplify, the check
\* assertion, onnx.save_model back to path
onnx_simplify(s, path, ok) ==
    LET s1 == [s EXCEPT !.simplify_calls = @ + 1]
    IN  IF ~ok THEN raise(s1, "AssertionError")
        ELSE graph_pass(s1, path, path, "simplify")

simplify_unguarded(s, a, ok) ==
    IF a.simplify
    THEN LET s1 == onnx_simplify(attempt(s, "simplify"), a.output_path, ok)
         IN  IF s1.pc = "failed" THEN s1
             ELSE complete(print_line(s1, "simplified"), "simplify", "ort")
    ELSE [s EXCEPT !.pc = "ort"]

\* if args.simplify: raise NotImplementedError(...); what follows the raise
\* (onnx_simplify, the print) is never executed
simplify_step(s, a, ok) ==
    IF a.simplify
    THEN raise(attempt(s, "simplify"), "NotImplementedError")
    ELSE [s EXCEPT !.pc = "ort"]

convert_to_ort_unchecked(s, a, returncode) ==
    IF a.ort
    THEN LET s1 == [attempt(s, "ort") EXCEPT !.returncode = <<returncode>>]
             s2 == IF returncode = 0
                   THEN [s1 EXCEPT !.files =
                            Write(@, ort_path(a.output_path),
                                  Append(s1.files[a.output_path], "convert_to_ort"))]
                   ELSE s1
         IN  complete(print_line(s2, "converted_to_ort"), "ort", "session_build")
    ELSE [s EXCEPT !.pc = "session_build"]

\* if args.ort: subprocess.run([... convert_onnx_models_to_ort ...]).returncode != 0
\* raises RuntimeError
convert_to_ort(s, a, returncode) ==
    IF a.ort
    THEN LET s1 == [attempt(s, "ort") EXCEPT !.returncode = <<returncode>>]
         IN  IF returncode # 0 THEN raise(s1, "RuntimeError")
             ELSE LET s2 == [s1 EXCEPT !.files =
                                Write(@, ort_path(a.output_path),
                                      Append(s1.files[a.output_path], "convert_to_ort"))]
                  IN  complete(print_line(s2, "converted_to_ort"), "ort", "session_build")
    ELSE [s EXCEPT !.pc = "session_build"]

\* sess_options = ort.SessionOptions() and the five assignments to it
sess_options(a) ==
    [graph_optimization_level |-> "ORT_ENABLE_EXTENDED",
     optimized_model_filepath |-> a.output_path,
     inter_op_num_threads |-> NUM_THREADS,
     intra_op_num_threads |-> NUM_THREADS,
     execution_mode |-> "ORT_SEQUENTIAL"]

\* ort.InferenceSession(path, options, providers=["CPUExecutionProvider"]):
\* loads the graph at path and saves the optimized graph where the options say
InferenceSession(s, path, options) ==
    LET s1 == graph_pass(s, path, options.optimized_model_filepath, "ort_optimize")
    IN  [s1 EXCEPT !.sessions = Append(@, [path |-> path, options |-> options,
                                           providers |-> <<"CPUExecutionProvider">>])]

build_session_per_flag(s, a, outcome) ==
    LET s1 == print_line(attempt(s, "session_build"), "checking")
        opts == [sess_options(a) EXCEPT !.intra_op_num_threads =
                    IF a.performance THEN NUM_THREADS ELSE NUM_THREADS + 1]
    IN  IF outcome = "build_fail" THEN raise(s1, "SessionError")
        ELSE LET s2 == InferenceSession(s1, a.output_path, opts)
                 s3 == [s2 EXCEPT !.ort_session = Len(s2.sessions)]
             IN  IF outcome = "run_fail" THEN raise(s3, "RunError")
                 ELSE complete(
                        print_line(
                          call(s3, "session_build", "session", s3.ort_session,
                               Cardinality(DOMAIN generate_onnx_features(input_features))),
                          "session_successful"),
                        "session_build", "test")

\* "Checking model...": the session options, ort_session = InferenceSession(...),
\* ort_session.run(OUTPUT_NAMES, input_features_onnx), the print
build_session(s, a, outcome) ==
    LET s1 == print_line(attempt(s, "session_build"), "checking")
    IN  IF outcome = "build_fail" THEN raise(s1, "SessionError")
        ELSE LET s2 == InferenceSession(s1, a.output_path, sess_options(a))
                 s3 == [s2 EXCEPT !.ort_session = Len(s2.sessions)]
             IN  IF outcome = "run_fail" THEN raise(s3, "RunError")
                 ELSE complete(
                        print_line(
                          call(s3, "session_build", "session", s3.ort_session,
                               Cardinality(DOMAIN generate_onnx_features(input_features))),
                          "session_successful"),
                        "session_build", "test")

SessionOutcomes == {"ok", "build_fail", "run_fail"}

\* test_onnx_model, lines 66-67: both sides start from their own deep copy
test_onnx_model(s, torch_model_arg, ort_session_arg, states) ==
    [s EXCEPT !.pc = "tester",
              !.tester_entered = TRUE,
              !.test_i = 0,
              !.states_torch = <<states>>,
              !.states_onnx = <<states>>]

\* if args.test: test_onnx_model(torch_df, ort_session, input_features[1]);
\* the argument input_features[1] is evaluated before the call
run_test(s, a, ok) ==
    IF a.test
    THEN LET s1 == attempt(s, "test")
         IN  IF Len(input_features) < 2 THEN raise(s1, "IndexError")
             ELSE test_onnx_model(s1, s1.torch_df, s1.ort_session, input_features[2])
    ELSE [s EXCEPT !.pc = "benchmark"]

\* one pass of the for loop of test_onnx_model; frame is torch.randn(FRAME_SIZE)
\* and y what ort_session.run returned for the feeds
test_iteration(s, a, o) ==
    LET x     == torch_model(o.input_frame, s.states_torch[1])
        feeds == generate_onnx_features(<<o.input_frame, s.states_onnx[1]>>)
        y     == o.y
        s1    == call(invoke(s, "test", s.torch_df, 2),
                      "test", "session", s.ort_session, Cardinality(DOMAIN feeds))
        s2    == [s1 EXCEPT !.fed_torch = s.states_torch,
                            !.fed_onnx = feeds,
                            !.prev_out_torch =
                                IF s.out_torch = <<>> THEN <<>> ELSE <<s.out_torch[2]>>,
                            !.prev_out_onnx =
                                IF s.out_onnx = <<>> THEN <<>> ELSE <<s.out_onnx[2]>>,
                            !.iterations = @ + 1,
                            !.out_torch = x,
                            !.out_onnx = y]
        n     == Min(Min(Len(x), Len(y)), Len(OUTPUT_NAMES))
    IN  IF \E k \in 1..n : ~allclose(x[k], y[k])
        THEN raise(s2, "AssertionError")
        ELSE [s2 EXCEPT !.test_i = @ + 1]

\* the loop is over: back in main, print("Tests passed!")
test_return(s, a, ok) ==
    complete(print_line(s, "tests_passed"), "test", "benchmark")

\* perform_benchmark: the timer calls run_onnx, which runs ort_session
perform_benchmark(s, ort_session_arg, nfeeds) ==
    print_line(call(s, "benchmark", "session", ort_session_arg, nfeeds), "median_time")

run_benchmark_always(s, a, ok) ==
    IF a.performance \/ a.always_apply_all_stages
    THEN LET s1 == print_line(attempt(s, "benchmark"), "performance_check")
         IN  IF ~ok THEN raise(s1, "BenchmarkError")
             ELSE complete(
                    perform_benchmark(s1, s1.ort_session,
                        Cardinality(DOMAIN generate_onnx_features(input_features))),
                    "benchmark", "audio_inference")
    ELSE [s EXCEPT !.pc = "audio_inference"]

\* if args.performance: print; perform_benchmark(ort_session, input_features_onnx)
run_benchmark(s, a, ok) ==
    IF a.performance
    THEN LET s1 == print_line(attempt(s, "benchmark"), "performance_check")
         IN  IF ~ok THEN raise(s1, "BenchmarkError")
             ELSE complete(
                    perform_benchmark(s1, s1.ort_session,
                        Cardinality(DOMAIN generate_onnx_features(input_features))),
                    "benchmark", "audio_inference")
    ELSE [s EXCEPT !.pc = "audio_inference"]

infer_onnx_model_native(s, ort_session_arg, inference_path, outcome) ==
    LET s1 == [s EXCEPT !.torch_streaming_model = "closure",
                        !.replaced_at = <<Len(s.calls)>>]
    IN  IF outcome = "load_fail" THEN raise(s1, "AudioLoadError")
        ELSE LET s2 == invoke(s1, "audio_inference", s1.torch_df, 1)
             IN  IF outcome = "run_fail" THEN raise(s2, "RunError")
                 ELSE IF outcome = "save_fail" THEN raise(s2, "AudioSaveError")
                 ELSE [s2 EXCEPT
                         !.files = Write(@, enhanced_path(inference_path),
                                         Append(s2.files[inference_path], "enhanced")),
                         !.saved_path = enhanced_path(inference_path)]

\* infer_onnx_model: replace streaming_pipeline.torch_streaming_model by the
\* lambda over ort_session, torchaudio.load, run the pipeline, torchaudio.save
infer_onnx_model(s, ort_session_arg, inference_path, outcome) ==
    LET s1 == [s EXCEPT !.torch_streaming_model = "closure",
                        !.replaced_at = <<Len(s.calls)>>]
    IN  IF outcome = "load_fail" THEN raise(s1, "AudioLoadError")
        ELSE LET s2 == invoke(s1, "audio_inference", s1.torch_streaming_model, 1)
             IN  IF outcome = "run_fail" THEN raise(s2, "RunError")
                 ELSE IF outcome = "save_fail" THEN raise(s2, "AudioSaveError")
                 ELSE [s2 EXCEPT
                         !.files = Write(@, enhanced_path(inference_path),
                                         Append(s2.files[inference_path], "enhanced")),
                         !.saved_path = enhanced_path(inference_path)]

\* if args.inference_path: infer_onnx_model(...); print
run_inference(s, a, outcome) ==
    IF a.inference_path # NoPath
    THEN LET s1 == infer_onnx_model(attempt(s, "audio_inference"), s.ort_session,
                                    a.inference_path, outcome)
         IN  IF s1.pc = "failed" THEN s1
             ELSE complete(print_line(s1, "enhanced"), "audio_inference", "done")
    ELSE [s EXCEPT !.pc = "done"]

InferOutcomes == {"ok", "load_fail", "run_fail", "save_fail"}

TestOracles == [input_frame : Vals, y : Vals \X Vals]

(***************************************************************************)
(* The run and its twin: the twin is the same run of main with only        *)
(* --always-apply-all-stages flipped, given the same library outcomes.     *)
(***************************************************************************)
Init ==
    /\ args \in ArgsSet
    /\ st = InitState(args)
    /\ twin = InitState(twin_args)

Load ==
    /\ st.pc = "load"
    /\ \E ok \in BOOLEAN :
          /\ st' = load_pipeline(st, args, ok)
          /\ twin' = load_pipeline(twin, twin_args, ok)
    /\ UNCHANGED args

Export ==
    /\ st.pc = "export"
    /\ \E ok \in BOOLEAN :
          /\ st' = export_model(st, args, ok)
          /\ twin' = export_model(twin, twin_args, ok)
    /\ UNCHANGED args

Validate ==
    /\ st.pc = "validate"
    /\ \E ok \in BOOLEAN :
          /\ st' = check_model(st, args, ok)
          /\ twin' = check_model(twin, twin_args, ok)
    /\ UNCHANGED args

QuantPreProcess ==
    /\ st.pc = "quant_pre_process"
    /\ \E ok \in BOOLEAN :
          /\ st' = quant_pre_process(st, args, ok)
          /\ twin' = quant_pre_process(twin, twin_args, ok)
    /\ UNCHANGED args

Quantize ==
    /\ st.pc = "quantize"
    /\ \E ok \in BOOLEAN :
          /\ st' = quantize_dynamic(st, args, ok)
          /\ twin' = quantize_dynamic(twin, twin_args, ok)
    /\ UNCHANGED args

Simplify ==
    /\ st.pc = "simplify"
    /\ \E ok \in BOOLEAN :
          /\ st' = simplify_step(st, args, ok)
          /\ twin' = simplify_step(twin, twin_args, ok)
    /\ UNCHANGED args

ConvertToOrt ==
    /\ st.pc = "ort"
    /\ \E returncode \in ReturnCodes :
          /\ st' = convert_to_ort(st, args, returncode)
          /\ twin' = convert_to_ort(twin, twin_args, returncode)
    /\ UNCHANGED args

BuildSession ==
    /\ st.pc = "session_build"
    /\ \E outcome \in SessionOutcomes :
          /\ st' = build_session(st, args, outcome)
          /\ twin' = build_session(twin, twin_args, outcome)
    /\ UNCHANGED args

Test ==
    /\ st.pc = "test"
    /\ st' = run_test(st, args, TRUE)
    /\ twin' = run_test(twin, twin_args, TRUE)
    /\ UNCHANGED args

Benchmark ==
    /\ st.pc = "benchmark"
    /\ \E ok \in BOOLEAN :
          /\ st' = run_benchmark(st, args, ok)
          /\ twin' = run_benchmark(twin, twin_args, ok)
    /\ UNCHANGED args

Inference ==
    /\ st.pc = "audio_inference"
    /\ \E outcome \in InferOutcomes :
          /\ st' = run_inference(st, args, outcome)
          /\ twin' = run_inference(twin, twin_args, outcome)
    /\ UNCHANGED args

Next ==
    \/ Load
    \/ Export
    \/ Validate
    \/ QuantPreProcess
    \/ Quantize
    \/ Simplify
    \/ ConvertToOrt
    \/ BuildSession
    \/ Test
    \/ Benchmark
    \/ Inference

Spec == Init /\ [][Next]_vars

(***************************************************************************)
(* test_onnx_model called with a state tensor: main never gets there (see  *)
(* run_test), so the function is driven from the state main has built when *)
(* it makes the call.                                                      *)
(***************************************************************************)
\* the run after every stage up to the session build has succeeded
AfterSession(a) ==
    build_session(
      convert_to_ort(
        simplify_step(
          quantize_dynamic(
            quant_pre_process(
              check_model(
                export_model(load_pipeline(InitState(a), a, TRUE), a, TRUE),
                a, TRUE),
              a, TRUE),
            a, TRUE),
          a, TRUE),
        a, 0),
      a, "ok")

TesterArgs ==
    {a \in ArgsSet : /\ a.test /\ ~a.simplify /\ ~a.ort /\ ~a.performance
                     /\ a.inference_path = NoPath
                     /\ a.output_path = DefaultOutputPath}

TesterStart(a, states) ==
    LET s == attempt(AfterSession(a), "test")
    IN  test_onnx_model(s, s.torch_df, s.ort_session, states)

InitTester ==
    /\ args \in TesterArgs
    /\ \E states \in Vals :
          /\ st = TesterStart(args, states)
          /\ twin = TesterStart(twin_args, states)

TesterIteration ==
    /\ st.pc = "tester"
    /\ st.test_i < TEST_ITERS
    /\ \E o \in TestOracles :
          /\ st' = test_iteration(st, args, o)
          /\ twin' = test_iteration(twin, twin_args, o)
    /\ UNCHANGED args

TesterReturn ==
    /\ st.pc = "tester"
    /\ st.test_i = TEST_ITERS
    /\ st' = test_return(st, args, TRUE)
    /\ twin' = test_return(twin, twin_args, TRUE)
    /\ UNCHANGED args

NextTester == TesterIteration \/ TesterReturn

SpecTester == InitTester /\ [][NextTester]_vars

(***************************************************************************)
(* infer_onnx_model over every inference path up to MaxLen characters      *)
(***************************************************************************)
Paths == UNION {[1..k -> Alphabet] : k \in 1..MaxLen}

AudioArgs ==
    [output_path : {DefaultOutputPath},
     simplify : {FALSE},
     test : {FALSE},
     performance : {FALSE},
     inference_path : Paths,
     ort : {FALSE},
     always_apply_all_stages : BOOLEAN]

AudioStart(a) == run_benchmark(run_test(AfterSession(a), a, TRUE), a, TRUE)

InitAudio ==
    /\ args \in AudioArgs
    /\ st = AudioStart(args)
    /\ twin = AudioStart(twin_args)

NextAudio == Inference

SpecAudio == InitAudio /\ [][NextAudio]_vars

(***************************************************************************)
(* Claims                                                                  *)
(***************************************************************************)
Rank(stage) ==
    CASE stage = "load" -> 0
      [] stage = "export" -> 1
      [] stage = "validate" -> 2
      [] stage = "quant_pre_process" -> 3
      [] stage = "quantize" -> 4
      [] stage = "simplify" -> 5
      [] stage = "ort" -> 6
      [] stage = "session_build" -> 7
      [] stage = "test" -> 8
      [] stage = "benchmark" -> 9
      [] stage = "audio_inference" -> 10
      [] OTHER -> 11

StageNames ==
    {"load", "export", "validate", "quant_pre_process", "quantize", "simplify",
     "ort", "session_build", "test", "benchmark", "audio_inference"}

Opt(cond, stage) == IF cond THEN <<stage>> ELSE <<>>

\* the stages a command line selects, in the fixed order of the pipeline
Selected(a) ==
    <<"load", "export", "validate", "quant_pre_process", "quantize">>
    \o Opt(a.simplify, "simplify")
    \o Opt(a.ort, "ort")
    \o <<"session_build">>
    \o Opt(a.test, "test")
    \o Opt(a.performance, "benchmark")
    \o Opt(a.inference_path # NoPath, "audio_inference")

SelectedBefore(a, pc) ==
    LET Earlier(x) == Rank(x) < Rank(pc) IN SelectSeq(Selected(a), Earlier)

Printed(msg) == InSeq(msg, st.printed)

QuantizedGraph == <<"export", "quant_pre_process", "quantize_dynamic">>

IsGraph(c) == Len(c) > 0 /\ c[1] = "export"

\* C1: onnx_simplify is never invoked and "Model simplified!" never printed,
\* for any flags; a run with --simplify never gets past the simplify stage,
\* and once it has passed quantization it has stopped there with
\* NotImplementedError.
C1_SimplifyAlwaysRaises ==
    /\ st.simplify_calls = 0
    /\ ~Printed("simplified")
    /\ ~InSeq("simplify", st.completed)
    /\ ~InSeq("simplify", st.passes)
    /\ args.simplify =>
          /\ st.pc \notin {"ort", "session_build", "test", "benchmark",
                           "audio_inference", "done", "tester"}
          /\ st.sessions = <<>>
          /\ (InSeq("quantize", st.completed) /\ st.pc # "simplify") =>
                /\ st.pc = "failed"
                /\ st.error = "NotImplementedError"
                /\ st.stages[Len(st.stages)] = "simplify"
                /\ st.files[args.output_path] = QuantizedGraph

C1_Witness ==
    /\ args.simplify
    /\ args.ort
    /\ st.pc = "failed"
    /\ st.error = "NotImplementedError"

\* C2: once the conversion subprocess has returned a non-zero exit code the
\* run has failed with RuntimeError: no session exists, no stage after the
\* conversion was attempted, the graph was never invoked through a session,
\* nothing after the conversion was printed (no success report), and the
\* graph file is still the quantized graph.
C2_OrtFailureAborts ==
    (st.returncode # <<>> /\ st.returncode[1] # 0) =>
        /\ args.ort
        /\ st.pc = "failed"
        /\ st.error = "RuntimeError"
        /\ st.sessions = <<>>
        /\ st.ort_session = 0
        /\ st.stages[Len(st.stages)] = "ort"
        /\ ~InSeq("ort", st.completed)
        /\ \A k \in 1..Len(st.calls) : st.calls[k].callee # "session"
        /\ \A msg \in {"converted_to_ort", "checking", "session_successful",
                       "tests_passed", "performance_check", "median_time",
                       "enhanced"} : ~Printed(msg)
        /\ st.files[args.output_path] = QuantizedGraph
        /\ st.saved_path = NoPath

C2_Witness ==
    /\ st.returncode = <<MaxReturnCode>>
    /\ args.test
    /\ args.performance
    /\ args.inference_path # NoPath
    /\ st.pc = "failed"

\* C3: a run with --test whose earlier stages succeeded enters the tester and
\* either completes its 30 iterations (and only then prints "Tests passed!")
\* or stops on a mismatch with the assertion error.
C3_TesterRunsThirtyIterations ==
    (args.test /\ InSeq("session_build", st.completed) /\ st.pc # "test") =>
        /\ st.tester_entered
        /\ st.error \in {"none", "AssertionError", "BenchmarkError",
                         "AudioLoadError", "RunError", "AudioSaveError"}
        /\ Printed("tests_passed") => st.test_i = TEST_ITERS
        /\ st.pc \in {"benchmark", "audio_inference", "done"} => Printed("tests_passed")

\* C4: the stages attempted are a prefix of the selected stages in the fixed
\* order (so each at most once, none out of order, none unselected); a stage
\* is entered with exactly the selected earlier stages completed; an error
\* stops the run at the stage that raised it; a finished run attempted
\* every selected stage, and a run that built the session completed the
\* four mandatory stages before it.
C4_LinearPipeline ==
    /\ IsPrefix(st.stages, Selected(args))
    /\ IsPrefix(st.completed, st.stages)
    /\ st.pc \in StageNames => /\ st.error = "none"
                               /\ st.completed = st.stages
                               /\ st.completed = SelectedBefore(args, st.pc)
    /\ st.error # "none" => /\ st.pc = "failed"
                            /\ Len(st.stages) = Len(st.completed) + 1
    /\ st.pc = "failed" => st.error # "none"
    /\ st.pc = "done" => /\ st.error = "none"
                         /\ st.completed = Selected(args)
    /\ InSeq("session_build", st.stages) =>
          \A m \in {"export", "validate", "quant_pre_process", "quantize"} :
              InSeq(m, st.completed)

C4_Witness ==
    /\ st.pc = "done"
    /\ args.ort
    /\ args.performance
    /\ args.inference_path # NoPath
    /\ st.stages = <<"load", "export", "validate", "quant_pre_process", "quantize",
                     "ort", "session_build", "benchmark", "audio_inference">>

\* C5: every file holding a graph is at the output path or is the derived
\* .ort file; the file at the output path holds exactly the passes completed
\* so far, in order; the .ort file is derived from the quantized graph; and
\* every session is bound to, and saves its optimized copy at, the output
\* path.
C5_SingleGraphFile ==
    /\ \A p \in DOMAIN st.files :
          IsGraph(st.files[p]) => p \in {args.output_path, ort_path(args.output_path)}
    /\ IsPrefix(st.passes, QuantizedGraph \o <<"ort_optimize">>)
    /\ st.passes # <<>> => /\ args.output_path \in DOMAIN st.files
                           /\ st.files[args.output_path] = st.passes
    /\ st.passes = <<>> => args.output_path \notin DOMAIN st.files
    /\ ort_path(args.output_path) \in DOMAIN st.files =>
          /\ InSeq("ort", st.completed)
          /\ st.files[ort_path(args.output_path)] = Append(QuantizedGraph, "convert_to_ort")
    /\ \A k \in 1..Len(st.sessions) :
          /\ st.sessions[k].path = args.output_path
          /\ st.sessions[k].options.optimized_model_filepath = args.output_path

C5_Witness ==
    /\ st.pc = "done"
    /\ args.ort
    /\ st.files[args.output_path] = QuantizedGraph \o <<"ort_optimize">>
    /\ ort_path(args.output_path) \in DOMAIN st.files
    /\ st.saved_path # NoPath

\* C6: the enhanced waveform is saved at stem + "_onnx_infer" + extension
\* of the inference path, which differs from the inference path, and the
\* input audio file is left as it was.
C6_EnhancedPathAppendsToStem ==
    st.saved_path # NoPath =>
        LET p == args.inference_path
            d == LastDot(p)
        IN  /\ st.saved_path = IF d > 1
                               THEN SubSeq(p, 1, d - 1) \o OnnxInfer \o SubSeq(p, d, Len(p))
                               ELSE p \o OnnxInfer
            /\ st.saved_path # p
            /\ st.files[p] = AudioFile

\* C7: there is never more than one session; once the session build has
\* completed there is exactly one, it is the one ort_session names, and it
\* has the fixed configuration whatever the flags; every invocation of the
\* graph, in any stage, goes through that session.
C7_OneFixedSession ==
    /\ Len(st.sessions) <= 1
    /\ st.ort_session = Len(st.sessions)
    /\ InSeq("session_build", st.completed) => Len(st.sessions) = 1
    /\ \A k \in 1..Len(st.sessions) :
          st.sessions[k] =
            [path |-> args.output_path,
             options |-> [graph_optimization_level |-> "ORT_ENABLE_EXTENDED",
                          optimized_model_filepath |-> args.output_path,
                          inter_op_num_threads |-> 1,
                          intra_op_num_threads |-> 1,
                          execution_mode |-> "ORT_SEQUENTIAL"],
             providers |-> <<"CPUExecutionProvider">>]
    /\ \A k \in 1..Len(st.calls) :
          /\ st.calls[k].callee = "session" =>
                /\ st.calls[k].session = 1
                /\ Len(st.sessions) = 1
                /\ st.calls[k].stage \in {"session_build", "test", "benchmark",
                                          "audio_inference"}
          /\ st.calls[k].stage \in {"session_build", "benchmark", "audio_inference"} =>
                st.calls[k].callee = "session"

C7_Witness ==
    /\ st.pc = "done"
    /\ args.performance
    /\ args.ort
    /\ \E k \in 1..Len(st.calls) : st.calls[k].stage = "benchmark"
    /\ \E k \in 1..Len(st.calls) :
          st.calls[k].stage = "audio_inference" /\ st.calls[k].session = 1

\* C8: the run and its twin, whose command line differs only in
\* --always-apply-all-stages and whose library calls had the same outcomes,
\* are in the same state: same stages attempted and completed, same files,
\* same output, same error.
C8_FlagUnused ==
    /\ twin_args.always_apply_all_stages # args.always_apply_all_stages
    /\ st = twin

C8_Witness ==
    /\ args.always_apply_all_stages
    /\ ~args.performance
    /\ ~args.ort
    /\ st.pc = "done"
    /\ twin.pc = "done"
    /\ st.saved_path # NoPath

\* C9: in every iteration the converted graph is fed the state as well as the
\* frame, and from the second iteration on each side is fed the state that
\* side produced in the iteration before.
C9_StateCarriedForward ==
    st.iterations >= 1 =>
        /\ \E x \in DOMAIN st.fed_onnx :
              /\ x # "input_frame"
              /\ st.iterations = 1 => <<st.fed_onnx[x]>> = st.fed_torch
              /\ st.prev_out_onnx # <<>> => <<st.fed_onnx[x]>> = st.prev_out_onnx
        /\ st.prev_out_torch # <<>> => st.fed_torch = st.prev_out_torch

\* C10: the pipeline's inference callable is the native module until the
\* audio-inference stage, which is the last one; every model call made by
\* the load-time check, the export and the tester is a call of the native
\* module, which is what torch_df names; and no call after the replacement
\* is a call of the native module.
C10_NativeModelUntilAudioStage ==
    /\ st.torch_streaming_model \in {"native", "closure"}
    /\ st.torch_streaming_model = "closure" <=> st.replaced_at # <<>>
    /\ st.replaced_at # <<>> =>
          /\ InSeq("audio_inference", st.stages)
          /\ st.pc \in {"done", "failed"}
          /\ \A k \in 1..Len(st.calls) :
                k > st.replaced_at[1] => /\ st.calls[k].callee = "session"
                                         /\ st.calls[k].stage = "audio_inference"
    /\ st.pc # "load" => st.torch_df = "native"
    /\ \A k \in 1..Len(st.calls) :
          st.calls[k].stage \in {"load", "export", "test"} => st.calls[k].callee = "native"
    /\ st.pc \notin {"load", "failed"} =>
          \E k \in 1..Len(st.calls) : st.calls[k].stage = "load"
    /\ InSeq("export", st.completed) =>
          \E k \in 1..Len(st.calls) : st.calls[k].stage = "export"

C10_Witness ==
    /\ st.pc = "done"
    /\ st.replaced_at # <<>>
    /\ Len(st.calls) > st.replaced_at[1]
    /\ st.calls[Len(st.calls)].callee = "session"

=============================================================================
